---- MODULE Spec2Model ----
(***************************************************************************)
(* Model of create_new_webmap.py: the popup synthesis and layer            *)
(* resolution of a web map built from a feature layer collection.          *)
(*                                                                         *)
(* Python strings are sequences of one-character strings, so that the      *)
(* substring test, isupper() and strip() are computed character by         *)
(* character.  Python dicts are functions whose DOMAIN is the set of keys  *)
(* present, so that a missing key (KeyError) differs from an empty value.  *)
(* A raised exception is a result whose error field names its class.       *)
(***************************************************************************)
EXTENDS Integers, Sequences, FiniteSets, TLC

VARIABLES
    web_map,            \* new_web_map.definition['operationalLayers'], mutated in place
    feature_layers,     \* the portal item "<project>_Map": embedded layers and get_data() payload
    layer_names,        \* the layer_names argument of create_new_webmap
    k,                  \* position of create_popups' loop in layer_names
    pc,                 \* position inside create_new_webmap / feature_layer_popup
    error,              \* class of the exception that aborted the workflow, "None" if none
    saved,              \* TRUE once new_web_map.save has been called
    operational_layer,  \* local of feature_layer_popup: reference (index) into web_map
    target_layer,       \* local of feature_layer_popup: reference to the schema layer
    entry_web_map,      \* history: web_map as it was when the current feature_layer_popup began
    args,               \* arguments of a direct call of one of the pure functions
    ret                 \* result of that call

vars == <<web_map, feature_layers, layer_names, k, pc, error, saved,
          operational_layer, target_layer, entry_web_map, args, ret>>

workflow_vars == <<web_map, feature_layers, layer_names, k, pc, error, saved,
                   operational_layer, target_layer, entry_web_map>>

-----------------------------------------------------------------------------
(* Bounds of the model *)

MaxLen == 3            \* longest word given to split_uppercase
MaxLayers == 2         \* most layers in a collection (and operational layers in a map)
MaxNames == 2          \* most entries of layer_names
MaxFieldInfos == 2     \* most entries of a popupInfo's fieldInfos
MaxCollection == 3     \* most layers of a collection given to the lookups on their own

-----------------------------------------------------------------------------
(* Characters and strings *)

\* str.isupper() for one ASCII character
UpperCase ==
    {"A", "B", "C", "D", "E", "F", "G", "H", "I", "J", "K", "L", "M",
     "N", "O", "P", "Q", "R", "S", "T", "U", "V", "W", "X", "Y", "Z"}

\* the ASCII characters str.strip() removes
Whitespace == {" ", "\t", "\n", "\r", "\f"}

\* any(letter.isupper() for letter in s)
HasUpper(s) == \E i \in 1..Len(s) : s[i] \in UpperCase

\* Python's `sub in s` for strings
IsSubstring(sub, s) ==
    \E i \in 0..(Len(s) - Len(sub)) :
        \A j \in 1..Len(sub) : s[i + j] = sub[j]

\* the Python str of a character sequence
RECURSIVE Join(_)
Join(s) == IF s = <<>> THEN "" ELSE Head(s) \o Join(Tail(s))

\* sequences over S of length at most n
SeqUpTo(S, n) == UNION {[1..m -> S] : m \in 0..n}

\* a dict
EmptyDict == [key \in {} |-> key]
HasKey(d, key) == key \in DOMAIN d
\* d[key] = v ; d.update({key: v})
Put(d, key, v) == [q \in DOMAIN d \cup {key} |-> IF q = key THEN v ELSE d[q]]

\* results of a call
NoValue == <<>>
Return(v) == [error |-> "None", value |-> v]
Raise(e) == [error |-> e, value |-> NoValue]

-----------------------------------------------------------------------------
(* split_uppercase *)

\* the loop of split_uppercase: final_word += ' %s' % i if i.isupper() else i
RECURSIVE final_word(_)
final_word(word) ==
    IF word = <<>> THEN <<>>
    ELSE (IF Head(word) \in UpperCase THEN <<" ", Head(word)>> ELSE <<Head(word)>>)
         \o final_word(Tail(word))

RECURSIVE lstrip(_)
lstrip(s) ==
    IF s # <<>> /\ Head(s) \in Whitespace THEN lstrip(Tail(s)) ELSE s

RECURSIVE rstrip(_)
rstrip(s) ==
    IF s # <<>> /\ s[Len(s)] \in Whitespace THEN rstrip(SubSeq(s, 1, Len(s) - 1)) ELSE s

\* str.strip()
strip(s) == rstrip(lstrip(s))

split_uppercase_nostrip(word) == final_word(word)

split_uppercase(word) == strip(final_word(word))

-----------------------------------------------------------------------------
(* Names used as inputs *)

OBJECTID == <<"O", "B", "J", "E", "C", "T", "I", "D">>
LandUseCode == <<"L", "a", "n", "d", "U", "s", "e", "C", "o", "d", "e">>
area == <<"a", "r", "e", "a">>
Area == <<"A", "r", "e", "a">>
Shape == <<"S", "h", "a", "p", "e">>

Roads == <<"R", "o", "a", "d", "s">>
RoadsDetail == <<"R", "o", "a", "d", "s", "D", "e", "t", "a", "i", "l">>
Parcels == <<"P", "a", "r", "c", "e", "l", "s">>
Detail == <<"D", "e", "t", "a", "i", "l">>
Lakes == <<"L", "a", "k", "e", "s">>

\* list of fields that are not shown in popups of layers
NO_POPUP_FIELDS ==
    { OBJECTID,
      <<"O", "R", "I", "G", "_", "F", "I", "D">>,
      <<"O", "R", "I", "G", "_", "F", "I", "D", "_", "1">>,
      <<"S", "h", "a", "p", "e", ".", "S", "T", "A", "r", "e", "a", "(", ")">>,
      <<"S", "h", "a", "p", "e", ".", "S", "T", "L", "e", "n", "g", "t", "h", "(", ")">>,
      <<"S", "h", "a", "p", "e", "_", "_", "A", "r", "e", "a">>,
      <<"S", "h", "a", "p", "e", "_", "_", "l", "e", "n", "g", "h", "t">>,
      Shape }

-----------------------------------------------------------------------------
(* get_feature_layer_index, get_webmap_operational_layers *)

\* the local variable assigned inside the scan: unbound until the first match
Unbound == [bound |-> FALSE, index |-> 0]
Bound(i) == [bound |-> TRUE, index |-> i]

\* a scan that keeps the first match instead of overwriting it
RECURSIVE scan_loop_first(_, _, _, _)
scan_loop_first(names, layer_name, index, local) ==
    IF index >= Len(names) THEN local
    ELSE scan_loop_first(names, layer_name, index + 1,
             IF IsSubstring(layer_name, names[index + 1]) /\ ~local.bound
             THEN Bound(index) ELSE local)

\* the scans of lines 346-352 and 369-371, from Python index `index` on: every
\* match overwrites the local
RECURSIVE scan_loop(_, _, _, _)
scan_loop(names, layer_name, index, local) ==
    IF index >= Len(names) THEN local
    ELSE scan_loop(names, layer_name, index + 1,
             IF IsSubstring(layer_name, names[index + 1]) THEN Bound(index) ELSE local)

\* `return layer_index`: reading the local while it is unbound raises
\* UnboundLocalError (the only outcome Python has for it)
return_local(local) ==
    IF local.bound THEN Return(local.index) ELSE Raise("UnboundLocalError")

LayerNames(layers) == [i \in 1..Len(layers) |-> layers[i].name]
LayerTitles(operationalLayers) ==
    [i \in 1..Len(operationalLayers) |-> operationalLayers[i]["title"]]

\* returns the Python (0-based) index of the layer
get_feature_layer_index(feature_layer_collection, layer_name) ==
    return_local(scan_loop(LayerNames(feature_layer_collection.layers), layer_name, 0, Unbound))

\* returns the operational layer itself, by reference: its Python index in
\* web_map_definition['operationalLayers']
get_webmap_operational_layers(operationalLayers, layer_name) ==
    return_local(scan_loop(LayerTitles(operationalLayers), layer_name, 0, Unbound))

-----------------------------------------------------------------------------
(* get_portal_item, get_feature_layer_from_feature_service *)

\* search_result: the items content.search returned; an empty result raises
get_portal_item(search_result) ==
    IF search_result = <<>> THEN Raise("KeyError") ELSE Return(search_result[1])

\* a reference to a layer: the container it lives in and its position there
LayerRef(container, index) == [container |-> container, index |-> index]

from_service_swapped(search_result, layer_name) ==
    LET item == get_portal_item(search_result) IN
    IF item.error # "None" THEN item
    ELSE LET fl == item.value
             layer_index == get_feature_layer_index(fl, layer_name)
         IN  IF layer_index.error # "None" THEN layer_index
             ELSE IF fl.data # EmptyDict
                  THEN Return(LayerRef("layers", layer_index.value))
                  ELSE Return(LayerRef("data", layer_index.value))

get_feature_layer_from_feature_service(search_result, layer_name) ==
    LET item == get_portal_item(search_result) IN
    IF item.error # "None" THEN item
    ELSE LET fl == item.value
             feature_layer_data == fl.data
             layer_index == get_feature_layer_index(fl, layer_name)
         IN  IF layer_index.error # "None" THEN layer_index
             ELSE IF feature_layer_data = EmptyDict
                  THEN Return(LayerRef("layers", layer_index.value))
                  ELSE IF layer_index.value >= Len(feature_layer_data["layers"])
                       THEN Raise("IndexError")
                       ELSE Return(LayerRef("data", layer_index.value))

-----------------------------------------------------------------------------
(* customize_popup_description *)

FONT == "<font color='#dc143c' face='Arial' size='2'>"

\* '<b> %s :</b>  {%s}  <br /><br />' % (label, placeholder)
field_popup(label, placeholder) ==
    "<b> " \o Join(label) \o " :</b>  {" \o Join(placeholder) \o "}  <br /><br />"

\* the loop of lines 284-298 over the remaining fieldInfos
RECURSIVE description_loop(_, _)
description_loop(fieldInfos, layer_popup_description) ==
    IF fieldInfos = <<>> THEN Return(layer_popup_description)
    ELSE LET field == Head(fieldInfos) IN
         IF ~HasKey(field, "fieldName") THEN Raise("KeyError")
         ELSE IF HasUpper(field["fieldName"]) /\ field["fieldName"] \notin NO_POPUP_FIELDS
         THEN description_loop(Tail(fieldInfos),
                  layer_popup_description
                  \o field_popup(split_uppercase(field["fieldName"]), field["fieldName"]))
         ELSE IF ~HasKey(field, "label") THEN Raise("KeyError")
         ELSE IF HasUpper(field["label"]) /\ field["label"] \notin NO_POPUP_FIELDS
         THEN description_loop(Tail(fieldInfos),
                  layer_popup_description
                  \o field_popup(split_uppercase(field["label"]), field["label"]))
         ELSE description_loop(Tail(fieldInfos), layer_popup_description)

customize_popup_description(op_layer, map_service_type) ==
    IF map_service_type # "Feature Layer" THEN Return(FONT)
    ELSE IF ~HasKey(op_layer, "popupInfo") THEN Raise("KeyError")
    ELSE IF ~HasKey(op_layer["popupInfo"], "fieldInfos") THEN Raise("KeyError")
    ELSE description_loop(op_layer["popupInfo"]["fieldInfos"], FONT)

-----------------------------------------------------------------------------
(* feature_layer_popup, one step per state of the synthesis *)

Double == "esriFieldTypeDouble"
Integer == "esriFieldTypeInteger"
String == "esriFieldTypeString"

\* {"places": p, "digitSeparator": False}
Format(p) == [places |-> p, digitSeparator |-> FALSE]

\* an inner loop that stops at the first field with the entry's name
RECURSIVE format_field_first(_, _)
format_field_first(field, fields) ==
    IF fields = <<>> THEN field
    ELSE LET fld == Head(fields) IN
         IF field["fieldName"] = fld.name /\ fld.type = Double
         THEN Put(field, "format", Format(2))
         ELSE IF field["fieldName"] = fld.name /\ fld.type = Integer
         THEN Put(field, "format", Format(0))
         ELSE format_field_first(field, Tail(fields))

\* the inner loop of lines 257-263 for one fieldInfos entry, over the remaining fields
RECURSIVE format_field(_, _)
format_field(field, fields) ==
    IF fields = <<>> THEN field
    ELSE LET fld == Head(fields) IN
         format_field(
             IF field["fieldName"] = fld.name /\ fld.type = Double
             THEN Put(field, "format", Format(2))
             ELSE IF field["fieldName"] = fld.name /\ fld.type = Integer
             THEN Put(field, "format", Format(0))
             ELSE field,
             Tail(fields))

\* the outer loop of lines 256-263
format_fields(fieldInfos, fields) ==
    [i \in 1..Len(fieldInfos) |-> format_field(fieldInfos[i], fields)]

\* the layer target_layer refers to.  get_data() is the item's parsed JSON, so a
\* layer of the payload is a dict; a layer of feature_layers.layers is a layer
\* object with properties
TargetIsDict == target_layer.container = "data"
TargetDict == feature_layers.data["layers"][target_layer.index + 1]
TargetObject == feature_layers.layers[target_layer.index + 1]

\* the operational layer the local refers to
OperationalLayer(wm) == wm[operational_layer + 1]

\* operational_layer['popupInfo'] = popup, in place
SetPopup(wm, popup) == [wm EXCEPT ![operational_layer + 1] = Put(@, "popupInfo", popup)]

\* a step that copies the schema layer's popupInfo whenever there is one
resolved_popup_copy(op_layer) ==
    IF ~HasKey(op_layer, "popupInfo") THEN Raise("KeyError")
    ELSE IF TargetIsDict /\ HasKey(TargetDict, "popupInfo")
    THEN Return(TargetDict["popupInfo"])
    ELSE IF op_layer["popupInfo"] # EmptyDict THEN Return(op_layer["popupInfo"])
    ELSE IF ~TargetIsDict THEN Raise("TypeError")
    ELSE Raise("KeyError")

\* lines 236-243: the popupInfo the operational layer ends the step with.
\* Line 242 stores the payload's own dict in the operational layer; the payload
\* is a local parsed anew by every get_data() and never read again after this
\* line, so the sharing is invisible and the portal's data stays as it was
resolved_popup(op_layer) ==
    IF ~HasKey(op_layer, "popupInfo") THEN Raise("KeyError")
    ELSE IF op_layer["popupInfo"] # EmptyDict THEN Return(op_layer["popupInfo"])
    \* target_layer['popupInfo']: a layer object is not subscriptable
    ELSE IF ~TargetIsDict THEN Raise("TypeError")
    ELSE IF ~HasKey(TargetDict, "popupInfo") THEN Raise("KeyError")
    ELSE Return(TargetDict["popupInfo"])

\* an exception leaves the workflow where it was raised; nothing catches it
Fail(e) ==
    /\ pc' = pc
    /\ error' = e

\* lines 223-232: locate the operational layer, then the schema layer
Locate ==
    /\ pc = "start"
    /\ error = "None"
    /\ k <= Len(layer_names)
    /\ entry_web_map' = web_map
    /\ LET found == get_webmap_operational_layers(web_map, layer_names[k])
           target == get_feature_layer_from_feature_service(<<feature_layers>>, layer_names[k])
       IN  IF found.error # "None"
           THEN Fail(found.error) /\ UNCHANGED <<operational_layer, target_layer>>
           ELSE IF target.error # "None"
           THEN Fail(target.error) /\ UNCHANGED <<operational_layer, target_layer>>
           ELSE /\ operational_layer' = found.value
                /\ target_layer' = target.value
                /\ pc' = "Located"
                /\ UNCHANGED error
    /\ UNCHANGED <<web_map, feature_layers, layer_names, k, saved, args, ret>>

\* lines 236-243
ResolvePopup ==
    /\ pc = "Located"
    /\ error = "None"
    /\ LET popup == resolved_popup(OperationalLayer(web_map))
       IN  IF popup.error # "None"
           THEN Fail(popup.error) /\ UNCHANGED web_map
           ELSE /\ web_map' = SetPopup(web_map, popup.value)
                /\ pc' = "PopupResolved"
                /\ UNCHANGED error
    /\ UNCHANGED <<feature_layers, layer_names, k, saved, operational_layer,
                   target_layer, entry_web_map, args, ret>>

\* a step that puts the web map back as it was when the description fails
SetDescription_rollback ==
    /\ pc = "PopupResolved"
    /\ error = "None"
    /\ LET titled == SetPopup(web_map,
                         Put(OperationalLayer(web_map)["popupInfo"], "title", layer_names[k]))
           layer_popup_description ==
               customize_popup_description(OperationalLayer(titled), "Feature Layer")
       IN  IF layer_popup_description.error # "None"
           THEN Fail(layer_popup_description.error) /\ web_map' = entry_web_map
           ELSE /\ web_map' = SetPopup(titled,
                                  Put(OperationalLayer(titled)["popupInfo"], "description",
                                      layer_popup_description.value))
                /\ pc' = "DescriptionSet"
                /\ UNCHANGED error
    /\ UNCHANGED <<feature_layers, layer_names, k, saved, operational_layer,
                   target_layer, entry_web_map, args, ret>>

\* lines 246-253
SetDescription ==
    /\ pc = "PopupResolved"
    /\ error = "None"
    /\ LET titled == SetPopup(web_map,
                         Put(OperationalLayer(web_map)["popupInfo"], "title", layer_names[k]))
           layer_popup_description ==
               customize_popup_description(OperationalLayer(titled), "Feature Layer")
       IN  IF layer_popup_description.error # "None"
           THEN Fail(layer_popup_description.error) /\ web_map' = titled
           ELSE /\ web_map' = SetPopup(titled,
                                  Put(OperationalLayer(titled)["popupInfo"], "description",
                                      layer_popup_description.value))
                /\ pc' = "DescriptionSet"
                /\ UNCHANGED error
    /\ UNCHANGED <<feature_layers, layer_names, k, saved, operational_layer,
                   target_layer, entry_web_map, args, ret>>

\* lines 256-265: target_layer.properties is first read inside the outer loop, so
\* it is read only when fieldInfos has an entry; a dict has no such attribute
FormatFields ==
    /\ pc = "DescriptionSet"
    /\ error = "None"
    /\ LET popup == OperationalLayer(web_map)["popupInfo"]
       IN  IF popup["fieldInfos"] = <<>>
           THEN pc' = "FieldsFormatted" /\ UNCHANGED <<web_map, error>>
           ELSE IF TargetIsDict
           THEN Fail("AttributeError") /\ UNCHANGED web_map
           ELSE /\ web_map' = SetPopup(web_map,
                                  Put(popup, "fieldInfos",
                                      format_fields(popup["fieldInfos"], TargetObject.fields)))
                /\ pc' = "FieldsFormatted"
                /\ UNCHANGED error
    /\ UNCHANGED <<feature_layers, layer_names, k, saved, operational_layer,
                   target_layer, entry_web_map, args, ret>>

-----------------------------------------------------------------------------
(* create_popups, create_new_webmap *)

\* lines 199-206: feature_layer_popup returned, the loop takes the next layer name
NextLayer ==
    /\ pc = "FieldsFormatted"
    /\ error = "None"
    /\ k' = k + 1
    /\ pc' = "start"
    /\ UNCHANGED <<web_map, feature_layers, layer_names, error, saved,
                   operational_layer, target_layer, entry_web_map, args, ret>>

\* a save that also runs when create_popups was left by an exception
Save_despite_failure ==
    /\ \/ pc = "start" /\ error = "None" /\ k > Len(layer_names)
       \/ error # "None" /\ ~saved
    /\ saved' = TRUE
    /\ pc' = "saved"
    /\ UNCHANGED <<web_map, feature_layers, layer_names, k, error,
                   operational_layer, target_layer, entry_web_map, args, ret>>

\* lines 71-73: create_popups returned (its loop is over, or layer_names is empty)
Save ==
    /\ pc = "start"
    /\ error = "None"
    /\ k > Len(layer_names)
    /\ saved' = TRUE
    /\ pc' = "saved"
    /\ UNCHANGED <<web_map, feature_layers, layer_names, k, error,
                   operational_layer, target_layer, entry_web_map, args, ret>>

-----------------------------------------------------------------------------
(* Inputs *)

\* entries of a popupInfo's fieldInfos: a label and a format are optional keys
PopupEntrySet ==
    { [fieldName |-> LandUseCode, format |-> [places |-> 3, digitSeparator |-> TRUE]],
      [fieldName |-> area, label |-> Area],
      [fieldName |-> OBJECTID] }

FieldInfosSet == SeqUpTo(PopupEntrySet, MaxFieldInfos)

\* fieldInfos of the runs that take more than one layer name
FewFieldInfos == {<<>>, <<[fieldName |-> area, label |-> Area]>>, <<[fieldName |-> OBJECTID]>>}

Field(name, type) == [name |-> name, type |-> type]

\* properties.fields of a layer; a name may occur twice (nothing guards against it)
SchemaFieldsSet ==
    { <<>>,
      <<Field(LandUseCode, Double)>>,
      <<Field(LandUseCode, Integer)>>,
      <<Field(LandUseCode, String)>>,
      <<Field(LandUseCode, Double), Field(LandUseCode, Integer)>>,
      <<Field(LandUseCode, Integer), Field(LandUseCode, Double)>>,
      <<Field(LandUseCode, Double), Field(LandUseCode, String)>>,
      <<Field(area, Integer), Field(LandUseCode, Double)>> }

FewSchemaFields == {<<>>, <<Field(area, Integer)>>}

LayerNameSet == {Roads, RoadsDetail}
TargetSet == {Roads, Detail, Lakes}

\* what get_data() returns: nothing (hosted), or a payload whose layers carry no
\* popupInfo, an empty one, or one with fieldInfos
PayloadKinds == {"empty", "nopopup", "emptypopup", "popup"}

\* a popupInfo the portal assigned to an operational layer
PortalPopup(fieldInfos) ==
    [title |-> <<>>, description |-> "", fieldInfos |-> fieldInfos]

\* a popupInfo of a layer of the payload; it has keys the synthesis never touches
PayloadPopup(fieldInfos) ==
    [title |-> <<>>, description |-> "", fieldInfos |-> fieldInfos,
     showAttachments |-> TRUE]

PayloadLayer(kind, fieldInfos) ==
    IF kind = "nopopup" THEN [id |-> "layer"]
    ELSE IF kind = "emptypopup" THEN [id |-> "layer", popupInfo |-> EmptyDict]
    ELSE [id |-> "layer", popupInfo |-> PayloadPopup(fieldInfos)]

Payload(kind, n, fieldInfos) ==
    IF kind = "empty" THEN EmptyDict
    ELSE [layers |-> [i \in 1..n |-> PayloadLayer(kind, fieldInfos)]]

NotCalled == [error |-> "NotCalled", value |-> NoValue]

\* the state when create_new_webmap reaches create_popups (line 65): the web map
\* holds one operational layer per layer of the collection (lines 53-54), titled
\* after it, with the popupInfo the portal gave it or an empty one; the
\* collection was found by the search of line 39, which line 315 repeats.
\* Runs with several layer names take their fieldInfos and fields from the
\* small sets
Init ==
    \E n \in 1..MaxLayers, kind \in PayloadKinds,
       names \in SeqUpTo(TargetSet, MaxNames) :
      \E lnames \in [1..n -> LayerNameSet], has_popup \in [1..n -> BOOLEAN],
         fieldInfos \in (IF Len(names) > 1 THEN FewFieldInfos ELSE FieldInfosSet),
         fields \in (IF Len(names) > 1 THEN FewSchemaFields ELSE SchemaFieldsSet) :
        /\ web_map = [i \in 1..n |->
               [title |-> lnames[i],
                popupInfo |-> IF has_popup[i] THEN PortalPopup(fieldInfos) ELSE EmptyDict]]
        /\ feature_layers =
               [layers |-> [i \in 1..n |-> [name |-> lnames[i], fields |-> fields]],
                data |-> Payload(kind, n, fieldInfos)]
        /\ layer_names = names
        /\ k = 1
        /\ pc = "start"
        /\ error = "None"
        /\ saved = FALSE
        /\ operational_layer = 0
        /\ target_layer = LayerRef("layers", 0)
        /\ entry_web_map = web_map
        /\ args = EmptyDict
        /\ ret = NotCalled

Next ==
    \/ Locate
    \/ ResolvePopup
    \/ SetDescription
    \/ FormatFields
    \/ NextLayer
    \/ Save

Spec == Init /\ [][Next]_vars

-----------------------------------------------------------------------------
(* The functions called on their own *)

\* the workflow is not running
Idle ==
    /\ web_map = <<>>
    /\ feature_layers = [layers |-> <<>>, data |-> EmptyDict]
    /\ layer_names = <<>>
    /\ k = 1
    /\ pc = "idle"
    /\ error = "None"
    /\ saved = FALSE
    /\ operational_layer = 0
    /\ target_layer = LayerRef("layers", 0)
    /\ entry_web_map = <<>>

\* words over lowercase letters, uppercase letters, whitespace and a sign
SplitAlphabet == {"a", "A", "B", " ", "\t", "_"}

InitSplit ==
    /\ Idle
    /\ \E word \in SeqUpTo(SplitAlphabet, MaxLen) :
           args = [fn |-> "split_uppercase", word |-> word]
    /\ ret = NotCalled

CallSplit ==
    /\ args.fn = "split_uppercase"
    /\ ret = NotCalled
    /\ ret' = Return(split_uppercase(args.word))
    /\ UNCHANGED <<workflow_vars, args>>

NextSplit == CallSplit

SpecSplit == InitSplit /\ [][NextSplit]_vars

\* collections and web maps for the lookups
ResolveNameSet == {Roads, RoadsDetail, Parcels}
ResolveTargetSet == {Roads, Detail, Parcels, Lakes, <<>>}

InitResolve ==
    /\ Idle
    /\ ret = NotCalled
    /\ \E names \in SeqUpTo(ResolveNameSet, MaxCollection), layer_name \in ResolveTargetSet :
        \/ args = [fn |-> "get_feature_layer_index",
                   feature_layer_collection |->
                       [layers |-> [i \in 1..Len(names) |-> [name |-> names[i]]]],
                   layer_name |-> layer_name]
        \/ args = [fn |-> "get_webmap_operational_layers",
                   operationalLayers |->
                       [i \in 1..Len(names) |-> [title |-> names[i], popupInfo |-> EmptyDict]],
                   layer_name |-> layer_name]
        \/ \E found \in BOOLEAN, has_data \in BOOLEAN, m \in 0..MaxCollection :
             args = [fn |-> "get_feature_layer_from_feature_service",
                     search_result |->
                         IF found
                         THEN <<[layers |-> [i \in 1..Len(names) |-> [name |-> names[i]]],
                                 data |-> IF ~has_data THEN EmptyDict
                                          ELSE [layers |-> [i \in 1..m |-> [id |-> "layer"]]]]>>
                         ELSE <<>>,
                     layer_name |-> layer_name]

CallIndex ==
    /\ args.fn = "get_feature_layer_index"
    /\ ret = NotCalled
    /\ ret' = get_feature_layer_index(args.feature_layer_collection, args.layer_name)
    /\ UNCHANGED <<workflow_vars, args>>

CallOperationalLayers ==
    /\ args.fn = "get_webmap_operational_layers"
    /\ ret = NotCalled
    /\ ret' = get_webmap_operational_layers(args.operationalLayers, args.layer_name)
    /\ UNCHANGED <<workflow_vars, args>>

CallFromService ==
    /\ args.fn = "get_feature_layer_from_feature_service"
    /\ ret = NotCalled
    /\ ret' = get_feature_layer_from_feature_service(args.search_result, args.layer_name)
    /\ UNCHANGED <<workflow_vars, args>>

NextResolve ==
    \/ CallIndex
    \/ CallOperationalLayers
    \/ CallFromService

SpecResolve == InitResolve /\ [][NextResolve]_vars

\* fieldInfos for the description: every fieldName with every label, or none
DescriptionEntrySet ==
    {[fieldName |-> f] : f \in {OBJECTID, LandUseCode, area}}
    \cup {[fieldName |-> f, label |-> l] :
             f \in {OBJECTID, LandUseCode, area}, l \in {Area, Shape, area}}

InitDescription ==
    /\ Idle
    /\ ret = NotCalled
    /\ \E fieldInfos \in SeqUpTo(DescriptionEntrySet, MaxFieldInfos),
          map_service_type \in {"Feature Layer", "Map Image Layer"} :
         args = [fn |-> "customize_popup_description",
                 operational_layer |->
                     [title |-> Roads, popupInfo |-> PortalPopup(fieldInfos)],
                 map_service_type |-> map_service_type]

CallDescription ==
    /\ args.fn = "customize_popup_description"
    /\ ret = NotCalled
    /\ ret' = customize_popup_description(args.operational_layer, args.map_service_type)
    /\ UNCHANGED <<workflow_vars, args>>

NextDescription == CallDescription

SpecDescription == InitDescription /\ [][NextDescription]_vars

-----------------------------------------------------------------------------
(* Properties of the lookups *)

Max(S) == CHOOSE m \in S : \A x \in S : x <= m

Called(fn) == args # EmptyDict /\ args.fn = fn /\ ret # NotCalled

\* the Python indexes of the names that contain layer_name
Matches(names, layer_name) ==
    {i \in 0..(Len(names) - 1) : IsSubstring(layer_name, names[i + 1])}

IsLastMatch(result, names, layer_name) ==
    /\ result.error = "None"
    /\ result.value \in Matches(names, layer_name)
    /\ \A i \in Matches(names, layer_name) : i <= result.value

\* C1: when at least one layer name (operational layer title) contains
\* layerName, get_feature_layer_index returns the greatest index whose name
\* contains it, and get_webmap_operational_layers returns the last operational
\* layer whose title contains it; never an earlier match.
C1_LastMatchWins ==
    /\ Called("get_feature_layer_index") =>
          LET names == LayerNames(args.feature_layer_collection.layers) IN
          Matches(names, args.layer_name) # {} => IsLastMatch(ret, names, args.layer_name)
    /\ Called("get_webmap_operational_layers") =>
          LET titles == LayerTitles(args.operationalLayers) IN
          Matches(titles, args.layer_name) # {} => IsLastMatch(ret, titles, args.layer_name)

\* layers ["Roads", "RoadsDetail", "Parcels"] with target "Roads" give 1
C1_Witness ==
    /\ Called("get_feature_layer_index")
    /\ LayerNames(args.feature_layer_collection.layers) = <<Roads, RoadsDetail, Parcels>>
    /\ args.layer_name = Roads
    /\ ret = Return(1)

\* C2: when no layer name contains layerName (an empty collection included),
\* get_feature_layer_index fails with NotFoundError and nothing else.
C2_NotFoundError ==
    Called("get_feature_layer_index") =>
        LET names == LayerNames(args.feature_layer_collection.layers) IN
        Matches(names, args.layer_name) = {} => ret.error = "NotFoundError"

\* C6: get_feature_layer_from_feature_service returns the layer at the index
\* of the last embedded layer whose name contains layerName, taken from the
\* collection's own layers when the payload is empty and from the payload's
\* layers when it is not; it does return one whenever that position exists.
C6_SchemaSource ==
    Called("get_feature_layer_from_feature_service") /\ args.search_result # <<>> =>
        LET fl == args.search_result[1]
            names == LayerNames(fl.layers)
            last == Max(Matches(names, args.layer_name))
        IN  /\ ret.error = "None" =>
                /\ Matches(names, args.layer_name) # {}
                /\ ret.value.index = last
                /\ ret.value.container = (IF fl.data = EmptyDict THEN "layers" ELSE "data")
            /\ (/\ Matches(names, args.layer_name) # {}
                /\ fl.data # EmptyDict => last < Len(fl.data["layers"]))
               => ret.error = "None"

\* a registered collection with two matching layers: the payload's second layer
C6_Witness ==
    /\ Called("get_feature_layer_from_feature_service")
    /\ args.search_result # <<>>
    /\ LayerNames(args.search_result[1].layers) = <<Roads, RoadsDetail, Parcels>>
    /\ args.layer_name = Roads
    /\ args.search_result[1].data # EmptyDict
    /\ ret = Return(LayerRef("data", 1))

-----------------------------------------------------------------------------
(* Properties of customize_popup_description *)

\* the line an entry contributes according to the description of the builder:
\* one line if it qualifies by fieldName, else one if it qualifies by a label
\* it carries, else nothing
ExpectedLine(field) ==
    IF HasUpper(field["fieldName"]) /\ field["fieldName"] \notin NO_POPUP_FIELDS
    THEN "<b> " \o Join(split_uppercase(field["fieldName"])) \o " :</b>  {"
         \o Join(field["fieldName"]) \o "}  <br /><br />"
    ELSE IF HasKey(field, "label") /\ HasUpper(field["label"])
            /\ field["label"] \notin NO_POPUP_FIELDS
    THEN "<b> " \o Join(split_uppercase(field["label"])) \o " :</b>  {"
         \o Join(field["label"]) \o "}  <br /><br />"
    ELSE ""

RECURSIVE ExpectedLines(_)
ExpectedLines(fieldInfos) ==
    IF fieldInfos = <<>> THEN ""
    ELSE ExpectedLine(Head(fieldInfos)) \o ExpectedLines(Tail(fieldInfos))

\* C7: for service kind "Feature Layer" the build completes and returns the
\* font prefix followed by one line per qualifying fieldInfos entry, in order,
\* and nothing for the others; for [{fieldName: "OBJECTID"}, {fieldName:
\* "LandUseCode"}] it returns exactly the one line of LandUseCode, labelled
\* "Land Use Code".
C7_OneLinePerQualifyingField ==
    Called("customize_popup_description") /\ args.map_service_type = "Feature Layer" =>
        LET fieldInfos == args.operational_layer["popupInfo"]["fieldInfos"] IN
        /\ ret.error = "None"
        /\ ret.value = FONT \o ExpectedLines(fieldInfos)
        /\ fieldInfos = <<[fieldName |-> OBJECTID], [fieldName |-> LandUseCode]>> =>
               ret.value =
                   FONT \o "<b> Land Use Code :</b>  {LandUseCode}  <br /><br />"

-----------------------------------------------------------------------------
(* Properties of split_uppercase *)

NumUpper(s) == Cardinality({i \in 1..Len(s) : s[i] \in UpperCase})

\* number of whitespace characters s begins and ends with
LeadingWhitespace(s) ==
    Cardinality({i \in 1..Len(s) : \A j \in 1..i : s[j] \in Whitespace})
TrailingWhitespace(s) ==
    Cardinality({i \in 1..Len(s) : \A j \in i..Len(s) : s[j] \in Whitespace})

Idempotent(word, result) ==
    ~HasUpper(word) => split_uppercase(result) = result

\* C8 as stated: split_uppercase is idempotent on words without an uppercase
\* letter, and its result is the word with exactly one space added per
\* uppercase letter, no character dropped.
C8_NothingDropped ==
    Called("split_uppercase") =>
        /\ ret.error = "None"
        /\ Idempotent(args.word, ret.value)
        /\ Len(ret.value) = Len(args.word) + NumUpper(args.word)

\* C8 amended: split_uppercase is idempotent on words without an uppercase
\* letter, and its result has one space added per uppercase letter, less what
\* the final trim removes: the whitespace the word begins and ends with, and
\* the space inserted before an uppercase letter that is the first character
\* after the leading whitespace; a word of whitespace only gives "".
C8_TrimmedSplit ==
    Called("split_uppercase") =>
        LET word == args.word
            lead == LeadingWhitespace(word)
        IN  /\ ret.error = "None"
            /\ Idempotent(word, ret.value)
            /\ Len(ret.value) =
                  IF lead = Len(word) THEN 0
                  ELSE Len(word) + NumUpper(word) - lead - TrailingWhitespace(word)
                       - (IF word[lead + 1] \in UpperCase THEN 1 ELSE 0)
            /\ NumUpper(ret.value) = NumUpper(word)

\* " Aa" gives "Aa": the leading blank and the inserted space are trimmed
C8_Witness ==
    /\ Called("split_uppercase")
    /\ args.word = <<" ", "A", "a">>
    /\ ret = Return(<<"A", "a">>)

-----------------------------------------------------------------------------
(* Properties of feature_layer_popup *)

\* the synthesis of layer_names[k] has located its layers (and may have failed since)
Synthesizing == pc \in {"Located", "PopupResolved", "DescriptionSet", "FieldsFormatted"}

\* the operational layer as it was when the synthesis began
EntryLayer == OperationalLayer(entry_web_map)

HostedCase == Synthesizing /\ EntryLayer["popupInfo"] # EmptyDict

RegisteredCase ==
    /\ Synthesizing
    /\ EntryLayer["popupInfo"] = EmptyDict
    /\ TargetIsDict
    /\ HasKey(TargetDict, "popupInfo")
    /\ TargetDict["popupInfo"] # EmptyDict

\* the popupInfo the synthesis works on, before it changes anything in it
OriginalPopup ==
    IF EntryLayer["popupInfo"] # EmptyDict THEN EntryLayer["popupInfo"]
    ELSE TargetDict["popupInfo"]

\* the schema fields step 4 compares with (a layer of the payload exposes none)
SchemaFields == IF TargetIsDict THEN <<>> ELSE TargetObject.fields

NumericMatches(field, fields) ==
    {j \in 1..Len(fields) :
        fields[j].name = field["fieldName"] /\ fields[j].type \in {Double, Integer}}

SameFormat(field, original) ==
    /\ HasKey(field, "format") <=> HasKey(original, "format")
    /\ HasKey(field, "format") => field["format"] = original["format"]

Completed == pc = "FieldsFormatted" /\ HasKey(OperationalLayer(web_map)["popupInfo"], "fieldInfos")

\* C3 as stated: on completion every fieldInfos entry named like a double
\* schema field has places 2, every entry named like an integer schema field
\* has places 0 (both without digit separator), and every other entry keeps
\* the format it had.
C3_FormatByType ==
    Completed =>
        LET fieldInfos == OperationalLayer(web_map)["popupInfo"]["fieldInfos"] IN
        \A i \in 1..Len(fieldInfos) :
            LET field == fieldInfos[i]
                types == {SchemaFields[j].type : j \in NumericMatches(field, SchemaFields)}
            IN  /\ Double \in types =>
                      HasKey(field, "format") /\ field["format"] = Format(2)
                /\ Integer \in types =>
                      HasKey(field, "format") /\ field["format"] = Format(0)
                /\ types = {} => SameFormat(field, OriginalPopup["fieldInfos"][i])

\* C3 amended: on completion every fieldInfos entry named like some double or
\* integer schema field has the format of the last such field in schema order
\* (places 2 if it is double, places 0 if it is integer, no digit separator),
\* and every other entry keeps the format it had.
C3_FormatByLastMatch ==
    Completed =>
        LET fieldInfos == OperationalLayer(web_map)["popupInfo"]["fieldInfos"] IN
        /\ Len(fieldInfos) = Len(OriginalPopup["fieldInfos"])
        /\ \A i \in 1..Len(fieldInfos) :
            LET field == fieldInfos[i]
                numeric == NumericMatches(field, SchemaFields)
            IN  IF numeric = {}
                THEN SameFormat(field, OriginalPopup["fieldInfos"][i])
                ELSE /\ HasKey(field, "format")
                     /\ field["format"] =
                          [places |-> IF SchemaFields[Max(numeric)].type = Double
                                      THEN 2 ELSE 0,
                           digitSeparator |-> FALSE]

\* an entry named like a double field and a later integer field ends with places 0
C3_Witness ==
    /\ Completed
    /\ SchemaFields = <<Field(LandUseCode, Double), Field(LandUseCode, Integer)>>
    /\ \E i \in 1..Len(OperationalLayer(web_map)["popupInfo"]["fieldInfos"]) :
         LET field == OperationalLayer(web_map)["popupInfo"]["fieldInfos"][i] IN
         /\ field["fieldName"] = LandUseCode
         /\ field["format"] = Format(0)
         /\ OriginalPopup["fieldInfos"][i]["format"] # Format(0)

\* two popupInfos that differ at most in title, description and the format of
\* their fieldInfos entries
SameButTitleDescriptionFormat(popup, original) ==
    LET kept == (DOMAIN original) \ {"title", "description"} IN
    /\ (DOMAIN popup) \ {"title", "description"} = kept
    /\ \A key \in kept \ {"fieldInfos"} : popup[key] = original[key]
    /\ "fieldInfos" \in kept =>
         /\ Len(popup["fieldInfos"]) = Len(original["fieldInfos"])
         /\ \A i \in 1..Len(original["fieldInfos"]) :
              LET field == popup["fieldInfos"][i]
                  before == original["fieldInfos"][i]
              IN  /\ (DOMAIN field) \ {"format"} = (DOMAIN before) \ {"format"}
                  /\ \A key \in (DOMAIN before) \ {"format"} : field[key] = before[key]

\* everything of the web map but the located layer's popupInfo is as it was
OnlyPopupTouched ==
    /\ Len(web_map) = Len(entry_web_map)
    /\ \A j \in 1..Len(web_map) :
         IF j = operational_layer + 1
         THEN /\ DOMAIN web_map[j] = DOMAIN entry_web_map[j]
              /\ web_map[j]["title"] = entry_web_map[j]["title"]
         ELSE web_map[j] = entry_web_map[j]

\* C4: in the hosted case (the operational layer's popupInfo is non-empty when
\* the synthesis starts) the popupInfo is never replaced by the schema layer's:
\* throughout and on completion it differs from its initial value at most in
\* title, description and the format of its fieldInfos entries, and every
\* other operational layer is unchanged.
C4_HostedPopupKept ==
    HostedCase =>
        /\ SameButTitleDescriptionFormat(OperationalLayer(web_map)["popupInfo"],
                                         EntryLayer["popupInfo"])
        /\ OnlyPopupTouched

\* a completed hosted synthesis in a map of two layers that changed a format
C4_Witness ==
    /\ HostedCase
    /\ pc = "FieldsFormatted"
    /\ Len(web_map) = 2
    /\ OperationalLayer(web_map)["popupInfo"]["title"] = layer_names[k]
    /\ \E i \in 1..Len(EntryLayer["popupInfo"]["fieldInfos"]) :
         ~SameFormat(OperationalLayer(web_map)["popupInfo"]["fieldInfos"][i],
                     EntryLayer["popupInfo"]["fieldInfos"][i])

\* C5: in the registered case (the operational layer's popupInfo is empty and
\* the layer of the payload carries a popupInfo) the synthesis runs to
\* completion, and the final popupInfo equals the schema layer's original
\* popupInfo except for title (= layerName), description (= the built one) and
\* the numeric formats.
C5_RegisteredCompletes ==
    RegisteredCase =>
        /\ error = "None"
        /\ pc = "FieldsFormatted" =>
             LET popup == OperationalLayer(web_map)["popupInfo"] IN
             /\ SameButTitleDescriptionFormat(popup, TargetDict["popupInfo"])
             /\ popup["title"] = layer_names[k]
             /\ popup["description"] = FONT \o ExpectedLines(popup["fieldInfos"])

\* the popupInfo a failed step leaves behind is what the steps before it wrote
Failed(at) == pc = at /\ error # "None"

StepOrder ==
    { <<"start", "Located">>, <<"Located", "PopupResolved">>,
      <<"PopupResolved", "DescriptionSet">>, <<"DescriptionSet", "FieldsFormatted">>,
      <<"FieldsFormatted", "start">>, <<"start", "saved">> }

\* C9: the synthesis goes through Located, PopupResolved, DescriptionSet,
\* FieldsFormatted in this order and changes only the located operational
\* layer; a failure while locating leaves the web map as it was; a failure
\* while building the description leaves the popupInfo resolved (copied, in the
\* registered case) and titled; a failure while formatting leaves it resolved,
\* titled and described: nothing is undone.
C9_NoRollback ==
    /\ [](/\ Failed("start") => web_map = entry_web_map
          /\ Failed("PopupResolved") =>
                /\ OperationalLayer(web_map)["popupInfo"] =
                       Put(OriginalPopup, "title", layer_names[k])
                /\ OnlyPopupTouched
          /\ Failed("DescriptionSet") =>
                /\ OperationalLayer(web_map)["popupInfo"] =
                       Put(Put(OriginalPopup, "title", layer_names[k]), "description",
                           FONT \o ExpectedLines(OriginalPopup["fieldInfos"]))
                /\ OnlyPopupTouched)
    /\ [][/\ pc' # pc => <<pc, pc'>> \in StepOrder
          /\ web_map' # web_map => Synthesizing /\ Len(web_map') = Len(web_map)]_vars

\* the registered case failed on the description: the copy and the title stay
C9_Witness ==
    /\ Failed("PopupResolved")
    /\ EntryLayer["popupInfo"] = EmptyDict
    /\ OperationalLayer(web_map)["popupInfo"] =
           Put(TargetDict["popupInfo"], "title", layer_names[k])
    /\ OperationalLayer(web_map)["popupInfo"]["fieldInfos"] # <<>>

\* C10: the layer names are synthesized one at a time in list order (the next
\* one only after the current one reached FieldsFormatted), the web map is
\* saved only after every one of them did, and once a synthesis has failed
\* nothing more happens: no later layer name is processed and the web map is
\* never saved.
C10_AbortOnFirstFailure ==
    /\ [](/\ saved => error = "None" /\ k = Len(layer_names) + 1
          /\ k \in 1..(Len(layer_names) + 1)
          /\ Synthesizing => k <= Len(layer_names))
    /\ [][/\ k' # k => pc = "FieldsFormatted" /\ error = "None" /\ k' = k + 1
          /\ saved' # saved => pc = "start" /\ k = Len(layer_names) + 1
          /\ error # "None" => UNCHANGED vars]_vars

\* two layer names were synthesized, then the web map was saved
C10_Witness ==
    /\ saved
    /\ Len(layer_names) = 2
    /\ k = 3
    /\ layer_names[1] # layer_names[2]

====
